---------------------------- MODULE Spec2Model ----------------------------
(***************************************************************************)
(* A model of scripts/sync_emails.py: the OTF e-mail scraper.              *)
(*                                                                         *)
(*   SpecParse  parse_workout_data, one regex search per step              *)
(*   SpecBody   get_email_body, one part of msg.walk() per step            *)
(*   SpecProc   process_email, one statement per step                      *)
(*   SpecSync   sequential runs of sync_to_supabase against one store      *)
(*   Spec       main: connect, search, process every message, sync,        *)
(*              summary and logout                                         *)
(*                                                                         *)
(* A text is a sequence of tokens, the tokens being what one space-free    *)
(* run of characters of the flattened text is; a token is a sequence of    *)
(* characters.  A label ("CALORIES BURNED") is a token of one element.     *)
(* An optional value is a sequence: <<>> is None, <<v>> is the value v.    *)
(***************************************************************************)
EXTENDS Integers, Sequences, FiniteSets, TLC

VARIABLES
    \* parse_workout_data
    html_body, text, data, ppc,
    \* get_email_body
    msg, part_no, body, bpc,
    \* process_email
    pe_fetch, pe_msg, pe_date, pe_subject, pe_body, pe_result, pe_pc,
    \* sync_to_supabase
    store, batch, idx, inserted, skipped, spc, outcome,
    \* main
    pc, email_ids, pos, workouts, results, logouts, summary

parseVars == <<html_body, text, data, ppc>>
bodyVars  == <<msg, part_no, body, bpc>>
procVars  == <<pe_fetch, pe_msg, pe_date, pe_subject, pe_body, pe_result, pe_pc>>
syncVars  == <<store, batch, idx, inserted, skipped, spc, outcome>>
mainVars  == <<pc, email_ids, pos, workouts, results, logouts, summary>>
vars      == <<parseVars, bodyVars, procVars, syncVars, mainVars>>

None == <<>>
Some(v) == <<v>>

-----------------------------------------------------------------------------
(* Bounds *)

MaxTextLen == 3
MaxParts == 3
MaxBatch == 3
MaxEmails == 2

-----------------------------------------------------------------------------
(* Characters and tokens *)

DigitVal ==
    "0" :> 0 @@ "1" :> 1 @@ "2" :> 2 @@ "3" :> 3 @@ "4" :> 4 @@
    "5" :> 5 @@ "6" :> 6 @@ "7" :> 7 @@ "8" :> 8 @@ "9" :> 9

IsDigit(c) == c \in DOMAIN DigitVal

CAL_LABEL   == <<"CALORIES BURNED">>
SPLAT_LABEL == <<"SPLAT POINTS">>
TREAD_LABEL == <<"TREADMILL PERFORMANCE TOTALS">>
ROWER_LABEL == <<"ROWER PERFORMANCE TOTALS">>
MILES       == <<"miles">>
METRES      == <<"m">>
TAG         == <<"<b>">>

NumTokens ==
    { <<"6", "7", "4">>, <<"1", "2">>, <<"5">>, <<"3", ".", "6">>,
      <<"1", ",", "2", "3", "4">>, <<",">> }

Tokens ==
    NumTokens \cup {CAL_LABEL, SPLAT_LABEL, TREAD_LABEL, ROWER_LABEL, MILES, METRES, TAG}

SeqsUpTo(S, n) == UNION { [1..k -> S] : k \in 0..n }

Front(s) == SubSeq(s, 1, Len(s) - 1)
Last(s) == s[Len(s)]
LastN(s, n) == SubSeq(s, Len(s) - n + 1, Len(s))
Min(a, b) == IF a <= b THEN a ELSE b

\* BeautifulSoup(html_body).get_text(separator=' ', strip=True): the markup goes,
\* the text nodes stay in document order.
get_text(b) == SelectSeq(b, LAMBDA t : t # TAG)

\* int() of a string of digits; int('') raises ValueError.
RECURSIVE int(_)
int(s) == IF s = <<>> THEN 0 ELSE 10 * int(Front(s)) + DigitVal[Last(s)]

int_raises(s) == s = <<>>

\* str.replace(',', '')
strip_commas(s) == SelectSeq(s, LAMBDA c : c # ",")

\* The digits a token ends with: what \d{m,n} can take right before a label.
RECURSIVE TrailingDigits(_)
TrailingDigits(s) ==
    IF s = <<>> \/ ~IsDigit(Last(s)) THEN <<>>
    ELSE Append(TrailingDigits(Front(s)), Last(s))

AllDigits(s) == \A k \in 1..Len(s) : IsDigit(s[k])

\* A whole token of the shape \d+\.?\d*
IsDecimal(s) ==
    \E k \in 1..Len(s) :
        /\ AllDigits(SubSeq(s, 1, k))
        /\ \/ k = Len(s)
           \/ s[k + 1] = "." /\ AllDigits(SubSeq(s, k + 2, Len(s)))

\* A whole token of the shape [\d,]+
IsGrouped(s) == Len(s) >= 1 /\ \A k \in 1..Len(s) : IsDigit(s[k]) \/ s[k] = ","

RECURSIVE StripZeros(_)
StripZeros(s) ==
    IF s # <<>> /\ Last(s) = "0" THEN StripZeros(Front(s)) ELSE s

\* float() of a token of the shape \d+\.?\d*: whole part and fraction digits.
float(s) ==
    LET k == CHOOSE k \in 1..Len(s) :
                 /\ AllDigits(SubSeq(s, 1, k))
                 /\ (k = Len(s) \/ s[k + 1] = ".")
    IN  [whole |-> int(SubSeq(s, 1, k)), frac |-> StripZeros(SubSeq(s, k + 2, Len(s)))]

-----------------------------------------------------------------------------
(* parse_workout_data: the four re.search calls.  Each gives the position of
   the number token of the leftmost match, 0 when the pattern matches nowhere. *)

Leftmost(S) == IF S = {} THEN 0 ELSE CHOOSE k \in S : \A j \in S : k <= j

\* (\d{2,4})\s*CALORIES\s*BURNED
cal_match(t) ==
    Leftmost({k \in 1..(Len(t) - 1) :
        Len(TrailingDigits(t[k])) >= 2 /\ t[k + 1] = CAL_LABEL})

\* (\d{1,2})\s*SPLAT\s*POINTS
splat_match(t) ==
    Leftmost({k \in 1..(Len(t) - 1) :
        Len(TrailingDigits(t[k])) >= 1 /\ t[k + 1] = SPLAT_LABEL})

\* TREADMILL\s*PERFORMANCE\s*TOTALS?\s*(\d+\.?\d*)\s*miles?
tread_match(t) ==
    Leftmost({k \in 2..(Len(t) - 1) :
        t[k - 1] = TREAD_LABEL /\ IsDecimal(t[k]) /\ t[k + 1] = MILES})

\* ROWER\s*PERFORMANCE\s*TOTALS?\s*([\d,]+)\s*m\b
rower_match(t) ==
    Leftmost({k \in 2..(Len(t) - 1) :
        t[k - 1] = ROWER_LABEL /\ IsGrouped(t[k]) /\ t[k + 1] = METRES})

cal_group(t) ==
    LET d == TrailingDigits(t[cal_match(t)]) IN LastN(d, Min(Len(d), 4))

splat_group(t) ==
    LET d == TrailingDigits(t[splat_match(t)]) IN LastN(d, Min(Len(d), 2))

EmptyData ==
    [treadmill_distance |-> None, rower_distance |-> None,
     splat_points |-> None, calories |-> None]

SetCalories(d, t) ==
    IF cal_match(t) # 0
    THEN [d EXCEPT !.calories = Some(int(cal_group(t)))] ELSE d

SetSplat(d, t) ==
    IF splat_match(t) # 0
    THEN [d EXCEPT !.splat_points = Some(int(splat_group(t)))] ELSE d

SetTreadmill(d, t) ==
    IF tread_match(t) # 0
    THEN [d EXCEPT !.treadmill_distance = Some(float(t[tread_match(t)]))] ELSE d

\* int(rower_match.group(1).replace(',', '')) raises when the group holds no digit.
RowerRaises(t) ==
    rower_match(t) # 0 /\ int_raises(strip_commas(t[rower_match(t)]))

SetRower(d, t) ==
    IF rower_match(t) # 0
    THEN [d EXCEPT !.rower_distance = Some(int(strip_commas(t[rower_match(t)])))]
    ELSE d

\* The whole function: <<"raise">> or <<"ok", data>>.
parse_workout_data(b) ==
    LET t == get_text(b) IN
    IF RowerRaises(t) THEN <<"raise">>
    ELSE <<"ok", SetRower(SetTreadmill(SetSplat(SetCalories(EmptyData, t), t), t), t)>>

-----------------------------------------------------------------------------
(* parse_workout_data, one statement per step *)

ParseIdle ==
    /\ html_body = <<>>
    /\ text = <<>>
    /\ data = EmptyData
    /\ ppc = "off"

\* soup.get_text(...) and the dict of four None
ParseGetText ==
    /\ ppc = "soup"
    /\ text' = get_text(html_body)
    /\ data' = EmptyData
    /\ ppc' = "cal"
    /\ UNCHANGED html_body
    /\ UNCHANGED <<bodyVars, procVars, syncVars, mainVars>>

ParseCalories ==
    /\ ppc = "cal"
    /\ data' = SetCalories(data, text)
    /\ ppc' = "splat"
    /\ UNCHANGED <<html_body, text>>
    /\ UNCHANGED <<bodyVars, procVars, syncVars, mainVars>>

ParseSplat ==
    /\ ppc = "splat"
    /\ data' = SetSplat(data, text)
    /\ ppc' = "tread"
    /\ UNCHANGED <<html_body, text>>
    /\ UNCHANGED <<bodyVars, procVars, syncVars, mainVars>>

ParseTreadmill ==
    /\ ppc = "tread"
    /\ data' = SetTreadmill(data, text)
    /\ ppc' = "rower"
    /\ UNCHANGED <<html_body, text>>
    /\ UNCHANGED <<bodyVars, procVars, syncVars, mainVars>>

ParseRower ==
    /\ ppc = "rower"
    /\ IF RowerRaises(text)
       THEN ppc' = "raised" /\ UNCHANGED data
       ELSE ppc' = "returned" /\ data' = SetRower(data, text)
    /\ UNCHANGED <<html_body, text>>
    /\ UNCHANGED <<bodyVars, procVars, syncVars, mainVars>>

-----------------------------------------------------------------------------
(* get_email_body.  A message is [multipart, parts]: the parts of a multipart
   message in msg.walk() order, or the message itself as its one part.  A part
   is [ctype, attachment, decodes, content]: its content type, whether its
   Content-Disposition holds "attachment", whether get_payload(decode=True)
   and .decode(charset, errors='replace') go through, and what they give. *)

NoBody == <<>>
BodyA == << <<"6", "7", "4">>, CAL_LABEL >>
BodyB == << TAG, <<"1", "2">>, SPLAT_LABEL >>
BodyC == << ROWER_LABEL, <<",">>, METRES >>
Contents == {NoBody, BodyA, BodyB}

TextTypes == {"text/html", "text/plain"}

Parts ==
    [ctype : {"other"}, attachment : BOOLEAN, decodes : {FALSE}, content : {NoBody}]
    \cup [ctype : TextTypes, attachment : {FALSE}, decodes : {FALSE}, content : {NoBody}]
    \cup [ctype : TextTypes, attachment : {FALSE}, decodes : {TRUE}, content : Contents]
    \cup [ctype : TextTypes, attachment : {TRUE}, decodes : {TRUE}, content : {BodyA}]

Messages ==
    [multipart : {FALSE}, parts : [1..1 -> Parts]]
    \cup [multipart : {TRUE}, parts : SeqsUpTo(Parts, MaxParts)]

\* WalkPart without the break after a text/html part.
WalkPartNoBreak(part, b) ==
    IF part.attachment THEN [body |-> b, brk |-> FALSE]
    ELSE IF part.ctype = "text/html"
    THEN IF part.decodes THEN [body |-> part.content, brk |-> FALSE]
         ELSE [body |-> b, brk |-> FALSE]
    ELSE IF part.ctype = "text/plain" /\ b = NoBody
    THEN IF part.decodes THEN [body |-> part.content, brk |-> FALSE]
         ELSE [body |-> b, brk |-> FALSE]
    ELSE [body |-> b, brk |-> FALSE]

\* WalkPart without "and not body": every text/plain part is taken.
WalkPartOverwrite(part, b) ==
    IF part.attachment THEN [body |-> b, brk |-> FALSE]
    ELSE IF part.ctype = "text/html"
    THEN IF part.decodes THEN [body |-> part.content, brk |-> TRUE]
         ELSE [body |-> b, brk |-> FALSE]
    ELSE IF part.ctype = "text/plain"
    THEN IF part.decodes THEN [body |-> part.content, brk |-> FALSE]
         ELSE [body |-> b, brk |-> FALSE]
    ELSE [body |-> b, brk |-> FALSE]

\* One turn of the loop over msg.walk(): the body after it, and whether it breaks.
WalkPart(part, b) ==
    IF part.attachment THEN [body |-> b, brk |-> FALSE]
    ELSE IF part.ctype = "text/html"
    THEN IF part.decodes THEN [body |-> part.content, brk |-> TRUE]
         ELSE [body |-> b, brk |-> FALSE]
    ELSE IF part.ctype = "text/plain" /\ b = NoBody
    THEN IF part.decodes THEN [body |-> part.content, brk |-> FALSE]
         ELSE [body |-> b, brk |-> FALSE]
    ELSE [body |-> b, brk |-> FALSE]

\* The else branch: the payload of the message itself.
SinglePayload(part) == IF part.decodes THEN part.content ELSE NoBody

RECURSIVE Walk(_, _, _)
Walk(parts, k, b) ==
    IF k > Len(parts) THEN b
    ELSE LET r == WalkPart(parts[k], b)
         IN  IF r.brk THEN r.body ELSE Walk(parts, k + 1, r.body)

get_email_body(m) ==
    IF m.multipart THEN Walk(m.parts, 1, NoBody) ELSE SinglePayload(m.parts[1])

BodyIdle ==
    /\ msg = [multipart |-> TRUE, parts |-> <<>>]
    /\ part_no = 1
    /\ body = NoBody
    /\ bpc = "off"

GetBodySingle ==
    /\ bpc = "start"
    /\ ~msg.multipart
    /\ body' = SinglePayload(msg.parts[1])
    /\ bpc' = "returned"
    /\ UNCHANGED <<msg, part_no>>
    /\ UNCHANGED <<parseVars, procVars, syncVars, mainVars>>

GetBodyPart ==
    /\ bpc = "start"
    /\ msg.multipart
    /\ part_no <= Len(msg.parts)
    /\ LET r == WalkPart(msg.parts[part_no], body)
       IN  /\ body' = r.body
           /\ part_no' = part_no + 1
           /\ bpc' = IF r.brk THEN "returned" ELSE "start"
    /\ UNCHANGED msg
    /\ UNCHANGED <<parseVars, procVars, syncVars, mainVars>>

GetBodyReturn ==
    /\ bpc = "start"
    /\ msg.multipart
    /\ part_no > Len(msg.parts)
    /\ bpc' = "returned"
    /\ UNCHANGED <<msg, part_no, body>>
    /\ UNCHANGED <<parseVars, procVars, syncVars, mainVars>>

-----------------------------------------------------------------------------
(* parse_email_date and decode_email_subject.  A Date header is what the two
   library parsers make of it: email.utils.parsedate_to_datetime (std) and
   datetime.strptime after the trailing "(UTC)" is cut (fallback), each a
   datetime or None when it raises. *)

Dates == {"2024-06-03", "2024-06-04"}
DateTimes == [date : Dates, time : {"07:15:00"}]
OptDateTimes == {None} \cup {Some(d) : d \in DateTimes}

DateHeaders ==
    [raw : {"missing", "empty"}, std : {None}, fallback : {None}]
    \cup [raw : {"text"}, std : OptDateTimes, fallback : OptDateTimes]

\* parse_email_date giving a default date where both parsers raise.
parse_email_date_default(h) ==
    IF h.raw \in {"missing", "empty"} THEN None
    ELSE IF h.std # None THEN h.std
    ELSE IF h.fallback # None THEN h.fallback
    ELSE Some([date |-> "2024-06-03", time |-> "07:15:00"])

parse_email_date(h) ==
    IF h.raw \in {"missing", "empty"} THEN None
    ELSE IF h.std # None THEN h.std
    ELSE h.fallback

\* workout_date.strftime('%Y-%m-%d')
strftime(dt) == dt.date

Subjects == {None, Some("way to conquer that workout")}

\* msg.get('Subject', '') and decode_email_subject
decode_email_subject(subject) == IF subject = None THEN "" ELSE subject[1]

-----------------------------------------------------------------------------
(* process_email: None, or the record of the message.  fetch is what
   mail.fetch did: "OK", another status, or "raise". *)

FetchOutcomes == {"OK", "NO", "raise"}

\* The parts of a fetched message: also one whose text makes the parser raise.
MailParts ==
    Parts \cup [ctype : TextTypes, attachment : {FALSE}, decodes : {TRUE}, content : {BodyC}]

MailMessages ==
    [date : DateHeaders, subject : Subjects, multipart : BOOLEAN, parts : [1..1 -> MailParts]]

MakeRecord(workout_date, subject, workout_data) ==
    [workout_date |-> strftime(workout_date),
     email_subject |-> subject,
     treadmill_distance |-> workout_data.treadmill_distance,
     rower_distance |-> workout_data.rower_distance,
     splat_points |-> workout_data.splat_points,
     calories |-> workout_data.calories]

\* Why process_email returned what it did.
process_email_path(fetch, m) ==
    IF fetch = "raise" THEN "fetch_raised"
    ELSE IF fetch # "OK" THEN "fetch_status"
    ELSE IF parse_email_date(m.date) = None THEN "no_date"
    ELSE IF get_email_body(m) = NoBody THEN "no_body"
    ELSE IF parse_workout_data(get_email_body(m))[1] = "raise" THEN "parse_raised"
    ELSE "record"

process_email(fetch, m) ==
    IF fetch = "raise" THEN None
    ELSE IF fetch # "OK" THEN None
    ELSE LET workout_date == parse_email_date(m.date) IN
    IF workout_date = None THEN None
    ELSE LET subject == decode_email_subject(m.subject)
             b == get_email_body(m) IN
    IF b = NoBody THEN None
    ELSE LET workout_data == parse_workout_data(b) IN
    IF workout_data[1] = "raise" THEN None
    ELSE Some(MakeRecord(workout_date[1], subject, workout_data[2]))

ProcIdle ==
    /\ pe_fetch = "OK"
    /\ pe_msg = CHOOSE m \in MailMessages : TRUE
    /\ pe_date = None
    /\ pe_subject = ""
    /\ pe_body = NoBody
    /\ pe_result = None
    /\ pe_pc = "off"

\* mail.fetch(email_id, '(RFC822)') and email.message_from_bytes
ProcFetch ==
    /\ pe_pc = "fetch"
    /\ pe_pc' = IF pe_fetch = "raise" THEN "returned"
                ELSE IF pe_fetch # "OK" THEN "returned"
                ELSE "date"
    /\ UNCHANGED <<pe_fetch, pe_msg, pe_date, pe_subject, pe_body, pe_result>>
    /\ UNCHANGED <<parseVars, bodyVars, syncVars, mainVars>>

\* workout_date = parse_email_date(msg); if not workout_date: return None
ProcDate ==
    /\ pe_pc = "date"
    /\ pe_date' = parse_email_date(pe_msg.date)
    /\ pe_pc' = IF pe_date' = None THEN "returned" ELSE "subject"
    /\ UNCHANGED <<pe_fetch, pe_msg, pe_subject, pe_body, pe_result>>
    /\ UNCHANGED <<parseVars, bodyVars, syncVars, mainVars>>

ProcSubject ==
    /\ pe_pc = "subject"
    /\ pe_subject' = decode_email_subject(pe_msg.subject)
    /\ pe_pc' = "body"
    /\ UNCHANGED <<pe_fetch, pe_msg, pe_date, pe_body, pe_result>>
    /\ UNCHANGED <<parseVars, bodyVars, syncVars, mainVars>>

\* body = get_email_body(msg); if not body: return None
ProcBody ==
    /\ pe_pc = "body"
    /\ pe_body' = get_email_body(pe_msg)
    /\ pe_pc' = IF pe_body' = NoBody THEN "returned" ELSE "parse"
    /\ UNCHANGED <<pe_fetch, pe_msg, pe_date, pe_subject, pe_result>>
    /\ UNCHANGED <<parseVars, bodyVars, syncVars, mainVars>>

\* workout_data = parse_workout_data(body) and the record; a raise is caught
ProcParse ==
    /\ pe_pc = "parse"
    /\ LET workout_data == parse_workout_data(pe_body) IN
       pe_result' = IF workout_data[1] = "raise" THEN None
                    ELSE Some(MakeRecord(pe_date[1], pe_subject, workout_data[2]))
    /\ pe_pc' = "returned"
    /\ UNCHANGED <<pe_fetch, pe_msg, pe_date, pe_subject, pe_body>>
    /\ UNCHANGED <<parseVars, bodyVars, syncVars, mainVars>>

-----------------------------------------------------------------------------
(* sync_to_supabase.  The store is the rows of the workouts table in
   insertion order. *)

Rows ==
    { MakeRecord(dt, "", EmptyData) : dt \in DateTimes }
    \cup { MakeRecord([date |-> "2024-06-03", time |-> "07:15:00"], "",
                      [EmptyData EXCEPT !.calories = Some(674)]) }

HasDate(rows, d) == \E k \in 1..Len(rows) : rows[k].workout_date = d

CountDate(rows, d) == Cardinality({k \in 1..Len(rows) : rows[k].workout_date = d})

OnePerDate(rows) == \A d \in Dates : CountDate(rows, d) <= 1

SyncIdle ==
    /\ store = <<>>
    /\ batch = <<>>
    /\ idx = 1
    /\ inserted = 0
    /\ skipped = 0
    /\ spc = "off"
    /\ outcome = <<>>

\* SyncRecord without the existence check: every record is inserted.
SyncRecordBlind ==
    /\ spc = "run"
    /\ idx <= Len(batch)
    /\ \/ /\ store' = Append(store, batch[idx])
          /\ outcome' = Append(outcome, "inserted")
          /\ inserted' = inserted + 1
          /\ UNCHANGED skipped
       \/ /\ outcome' = Append(outcome, "insert_raised")
          /\ skipped' = skipped + 1
          /\ UNCHANGED <<store, inserted>>
    /\ idx' = idx + 1
    /\ UNCHANGED <<batch, spc>>
    /\ UNCHANGED <<parseVars, bodyVars, procVars, mainVars>>

\* SyncRecord without the try/except: a raise ends the call.
SyncRecordAbort ==
    /\ spc = "run"
    /\ idx <= Len(batch)
    /\ LET workout == batch[idx] IN
       \/ /\ spc' = "raised"
          /\ UNCHANGED <<store, inserted, skipped, outcome, idx>>
       \/ /\ HasDate(store, workout.workout_date)
          /\ outcome' = Append(outcome, "existing")
          /\ skipped' = skipped + 1
          /\ idx' = idx + 1
          /\ UNCHANGED <<store, inserted, spc>>
       \/ /\ ~HasDate(store, workout.workout_date)
          /\ store' = Append(store, workout)
          /\ outcome' = Append(outcome, "inserted")
          /\ inserted' = inserted + 1
          /\ idx' = idx + 1
          /\ UNCHANGED <<skipped, spc>>
    /\ UNCHANGED batch
    /\ UNCHANGED <<parseVars, bodyVars, procVars, mainVars>>

\* One turn of the loop: the existence check, then the insert; either may raise.
SyncRecord ==
    /\ spc = "run"
    /\ idx <= Len(batch)
    /\ LET workout == batch[idx] IN
       \/ /\ outcome' = Append(outcome, "check_raised")
          /\ skipped' = skipped + 1
          /\ UNCHANGED <<store, inserted>>
       \/ /\ HasDate(store, workout.workout_date)
          /\ outcome' = Append(outcome, "existing")
          /\ skipped' = skipped + 1
          /\ UNCHANGED <<store, inserted>>
       \/ /\ ~HasDate(store, workout.workout_date)
          /\ store' = Append(store, workout)
          /\ outcome' = Append(outcome, "inserted")
          /\ inserted' = inserted + 1
          /\ UNCHANGED skipped
       \/ /\ ~HasDate(store, workout.workout_date)
          /\ outcome' = Append(outcome, "insert_raised")
          /\ skipped' = skipped + 1
          /\ UNCHANGED <<store, inserted>>
    /\ idx' = idx + 1
    /\ UNCHANGED <<batch, spc>>
    /\ UNCHANGED <<parseVars, bodyVars, procVars, mainVars>>

SyncReturn ==
    /\ spc = "run"
    /\ idx > Len(batch)
    /\ spc' = "returned"
    /\ UNCHANGED <<store, batch, idx, inserted, skipped, outcome>>
    /\ UNCHANGED <<parseVars, bodyVars, procVars, mainVars>>

\* A call of sync_to_supabase(supabase, b)
SyncCall(b) ==
    /\ batch' = b
    /\ idx' = 1
    /\ inserted' = 0
    /\ skipped' = 0
    /\ outcome' = <<>>
    /\ spc' = "run"
    /\ UNCHANGED store

\* The next run of the script's sync step, over any batch
SyncRun ==
    /\ spc \in {"idle", "returned"}
    /\ \E b \in SeqsUpTo(Rows, MaxBatch) : SyncCall(b)
    /\ UNCHANGED <<parseVars, bodyVars, procVars, mainVars>>

-----------------------------------------------------------------------------
(* main.  results is the log of the loop over email_ids: for each message
   handled, its identifier, the path process_email took and what it returned. *)

MainIdle ==
    /\ pc = "off"
    /\ email_ids = <<>>
    /\ pos = 1
    /\ workouts = <<>>
    /\ results = <<>>
    /\ logouts = 0
    /\ summary = None

\* get_supabase_client() and connect_to_gmail(): either may raise, and main returns.
MainConnect ==
    /\ pc = "start"
    /\ \/ pc' = "connection_error"
       \/ pc' = "search"
    /\ UNCHANGED <<email_ids, pos, workouts, results, logouts, summary>>
    /\ UNCHANGED syncVars
    /\ UNCHANGED <<parseVars, bodyVars, procVars>>

\* search_otf_emails(mail): select or search raises (nothing in main catches it),
\* or the status is not OK (the empty list), or the identifiers found.
MainSearch ==
    /\ pc = "search"
    /\ \/ pc' = "crashed" /\ UNCHANGED email_ids
       \/ pc' = "searched" /\ email_ids' = <<>>
       \/ \E n \in 0..MaxEmails :
              pc' = "searched" /\ email_ids' = [k \in 1..n |-> k]
    /\ UNCHANGED <<pos, workouts, results, logouts, summary>>
    /\ UNCHANGED syncVars
    /\ UNCHANGED <<parseVars, bodyVars, procVars>>

\* if not email_ids: print, logout, return
MainNoEmails ==
    /\ pc = "searched"
    /\ email_ids = <<>>
    /\ logouts' = logouts + 1
    /\ pc' = "done"
    /\ UNCHANGED <<email_ids, pos, workouts, results, summary>>
    /\ UNCHANGED syncVars
    /\ UNCHANGED <<parseVars, bodyVars, procVars>>

\* HandleEmail with a failed message ending the loop.
HandleEmailAbort(fetch, m) ==
    LET workout == process_email(fetch, m) IN
    /\ results' = Append(results, [id |-> email_ids[pos],
                                   path |-> process_email_path(fetch, m),
                                   workout |-> workout])
    /\ workouts' = IF workout # None THEN Append(workouts, workout[1]) ELSE workouts
    /\ pos' = IF workout # None THEN pos + 1 ELSE Len(email_ids) + 1
    /\ UNCHANGED <<pc, email_ids, logouts, summary>>

\* One turn of the loop over email_ids: workout = process_email(mail, email_id)
HandleEmail(fetch, m) ==
    LET workout == process_email(fetch, m) IN
    /\ results' = Append(results, [id |-> email_ids[pos],
                                   path |-> process_email_path(fetch, m),
                                   workout |-> workout])
    /\ workouts' = IF workout # None THEN Append(workouts, workout[1]) ELSE workouts
    /\ pos' = pos + 1
    /\ UNCHANGED <<pc, email_ids, logouts, summary>>

MainProcess ==
    /\ pc = "searched"
    /\ email_ids # <<>>
    /\ pos <= Len(email_ids)
    /\ \/ \E fetch \in FetchOutcomes \ {"OK"} :
              HandleEmail(fetch, CHOOSE m \in MailMessages : TRUE)
       \/ \E m \in MailMessages : HandleEmail("OK", m)
    /\ UNCHANGED syncVars
    /\ UNCHANGED <<parseVars, bodyVars, procVars>>

\* After the loop: "Successfully parsed ..."; if workouts: sync_to_supabase(...)
MainParsed ==
    /\ pc = "searched"
    /\ email_ids # <<>>
    /\ pos > Len(email_ids)
    /\ IF workouts # <<>>
       THEN pc' = "sync" /\ SyncCall(workouts)
       ELSE pc' = "cleanup" /\ UNCHANGED syncVars
    /\ UNCHANGED <<email_ids, pos, workouts, results, logouts, summary>>
    /\ UNCHANGED <<parseVars, bodyVars, procVars>>

\* sync_to_supabase returned: the "Sync complete!" block
MainSummary ==
    /\ pc = "sync"
    /\ spc = "returned"
    /\ summary' = Some([found |-> Len(email_ids), parsed |-> Len(workouts),
                        inserted |-> inserted, skipped |-> skipped])
    /\ pc' = "cleanup"
    /\ UNCHANGED <<email_ids, pos, workouts, results, logouts>>
    /\ UNCHANGED syncVars
    /\ UNCHANGED <<parseVars, bodyVars, procVars>>

\* mail.logout()
MainLogout ==
    /\ pc = "cleanup"
    /\ logouts' = logouts + 1
    /\ pc' = "done"
    /\ UNCHANGED <<email_ids, pos, workouts, results, summary>>
    /\ UNCHANGED syncVars
    /\ UNCHANGED <<parseVars, bodyVars, procVars>>

-----------------------------------------------------------------------------
(* Specifications *)

InitialStores == { s \in SeqsUpTo(Rows, Cardinality(Dates)) : OnePerDate(s) }

\* The stores main starts from: those whose rows hold no metric.
MainStores == { s \in InitialStores : \A k \in 1..Len(s) : s[k].calories = None }

InitParse ==
    /\ html_body \in SeqsUpTo(Tokens, MaxTextLen)
    /\ text = <<>>
    /\ data = EmptyData
    /\ ppc = "soup"
    /\ BodyIdle /\ ProcIdle /\ SyncIdle /\ MainIdle

NextParse ==
    \/ ParseGetText
    \/ ParseCalories
    \/ ParseSplat
    \/ ParseTreadmill
    \/ ParseRower

SpecParse == InitParse /\ [][NextParse]_vars

InitBody ==
    /\ msg \in Messages
    /\ part_no = 1
    /\ body = NoBody
    /\ bpc = "start"
    /\ ParseIdle /\ ProcIdle /\ SyncIdle /\ MainIdle

NextBody ==
    \/ GetBodySingle
    \/ GetBodyPart
    \/ GetBodyReturn

SpecBody == InitBody /\ [][NextBody]_vars

InitProc ==
    /\ pe_fetch \in FetchOutcomes
    /\ pe_msg \in MailMessages
    /\ pe_date = None
    /\ pe_subject = ""
    /\ pe_body = NoBody
    /\ pe_result = None
    /\ pe_pc = "fetch"
    /\ ParseIdle /\ BodyIdle /\ SyncIdle /\ MainIdle

NextProc ==
    \/ ProcFetch
    \/ ProcDate
    \/ ProcSubject
    \/ ProcBody
    \/ ProcParse

SpecProc == InitProc /\ [][NextProc]_vars

InitSync ==
    /\ store \in InitialStores
    /\ batch = <<>>
    /\ idx = 1
    /\ inserted = 0
    /\ skipped = 0
    /\ spc = "idle"
    /\ outcome = <<>>
    /\ ParseIdle /\ BodyIdle /\ ProcIdle /\ MainIdle

NextSync ==
    \/ SyncRun
    \/ SyncRecord
    \/ SyncReturn

SpecSync == InitSync /\ [][NextSync]_vars

Init ==
    /\ pc = "start"
    /\ email_ids = <<>>
    /\ pos = 1
    /\ workouts = <<>>
    /\ results = <<>>
    /\ logouts = 0
    /\ summary = None
    /\ store \in MainStores
    /\ batch = <<>>
    /\ idx = 1
    /\ inserted = 0
    /\ skipped = 0
    /\ spc = "idle"
    /\ outcome = <<>>
    /\ ParseIdle /\ BodyIdle /\ ProcIdle

Next ==
    \/ MainConnect
    \/ MainSearch
    \/ MainNoEmails
    \/ MainProcess
    \/ MainParsed
    \/ SyncRecord
    \/ SyncReturn
    \/ MainSummary
    \/ MainLogout

Spec == Init /\ [][Next]_vars

-----------------------------------------------------------------------------
(* Claims about sync_to_supabase (SpecSync) *)

OneRowPerDate ==
    /\ OnePerDate(store)
    /\ \A k \in 1..Len(outcome) :
           outcome[k] = "inserted" =>
               /\ CountDate(store, batch[k].workout_date) = 1
               /\ \A j \in 1..(k - 1) :
                      batch[j].workout_date = batch[k].workout_date
                          => outcome[j] # "inserted"

\* A turn of the loop on a record whose workout_date the store holds
PresentIsSkipped ==
    (spc = "run" /\ idx <= Len(batch) /\ idx' = idx + 1
        /\ HasDate(store, batch[idx].workout_date))
    => (store' = store /\ skipped' = skipped + 1 /\ inserted' = inserted)

\* C1: the store never holds two rows with one workout_date, and a turn of the
\* loop on a record whose workout_date the store already holds counts it as
\* skipped and leaves the store as it is.
C1_NeverDuplicated == []OneRowPerDate /\ [][PresentIsSkipped]_vars

C1_Witness ==
    /\ spc = "returned"
    /\ Len(batch) = 3
    /\ batch[1].workout_date = batch[2].workout_date
    /\ batch[1] # batch[2]
    /\ batch[3].workout_date # batch[1].workout_date
    /\ outcome = <<"inserted", "existing", "existing">>
    /\ Len(store) = 2

Skips(o) == Cardinality({k \in 1..Len(o) : o[k] # "inserted"})

\* C2: a raise of the existence check or of the insert counts the record as
\* skipped and the loop goes on: the call only ever returns, every record of
\* the batch gets its turn, and inserted + skipped is the size of the batch.
C2_ErrorsAreSkipped ==
    /\ spc \in {"idle", "run", "returned"}
    /\ spc \in {"run", "returned"} =>
           /\ Len(outcome) = idx - 1
           /\ skipped = Skips(outcome)
           /\ inserted + skipped = idx - 1
    /\ spc = "returned" =>
           /\ Len(outcome) = Len(batch)
           /\ inserted + skipped = Len(batch)

C2_Witness ==
    /\ spc = "returned"
    /\ outcome = <<"check_raised", "insert_raised", "inserted">>
    /\ inserted = 1
    /\ skipped = 2

-----------------------------------------------------------------------------
(* Claims about get_email_body (SpecBody) *)

HtmlParts(m) ==
    {k \in 1..Len(m.parts) :
        ~m.parts[k].attachment /\ m.parts[k].ctype = "text/html" /\ m.parts[k].decodes}

PlainParts(m) ==
    {k \in 1..Len(m.parts) :
        ~m.parts[k].attachment /\ m.parts[k].ctype = "text/plain" /\ m.parts[k].decodes}

\* Some part can be decoded, and every part that can is an attachment.
OnlyAttachments(m) ==
    /\ \E k \in 1..Len(m.parts) : m.parts[k].decodes
    /\ \A k \in 1..Len(m.parts) : m.parts[k].decodes => m.parts[k].attachment

\* C6: a message whose only usable part is an attachment, multipart or not,
\* gives the empty body.
C6_AttachmentOnlyIsEmpty ==
    (bpc = "returned" /\ OnlyAttachments(msg)) => body = NoBody

\* C7: in a multipart message with a non-attachment text/html part that decodes,
\* the body is the content of the first such part, and the walk reads no part
\* after it.
C7_FirstHtmlPart ==
    (bpc = "returned" /\ msg.multipart /\ HtmlParts(msg) # {}) =>
        /\ body = msg.parts[Leftmost(HtmlParts(msg))].content
        /\ part_no = Leftmost(HtmlParts(msg)) + 1

C7_Witness ==
    /\ bpc = "returned"
    /\ msg.multipart
    /\ Len(msg.parts) = 3
    /\ PlainParts(msg) = {1, 3}
    /\ HtmlParts(msg) = {2}
    /\ msg.parts[1].content = BodyA
    /\ msg.parts[3].content = BodyA
    /\ body = BodyB

\* C8 as stated: with no usable text/html part, the body is the content of the
\* first non-attachment text/plain part, also when that content is empty.
C8_FirstPlainPart ==
    (bpc = "returned" /\ msg.multipart /\ HtmlParts(msg) = {} /\ PlainParts(msg) # {}) =>
        body = msg.parts[Leftmost(PlainParts(msg))].content

NonEmptyPlainParts(m) == {k \in PlainParts(m) : m.parts[k].content # NoBody}

\* C8 as amended: with no usable text/html part, the body is the content of the
\* first non-attachment text/plain part that decodes to a non-empty string, and
\* empty when there is none.
C8_FirstNonEmptyPlainPart ==
    (bpc = "returned" /\ msg.multipart /\ HtmlParts(msg) = {}) =>
        body = IF NonEmptyPlainParts(msg) = {} THEN NoBody
               ELSE msg.parts[Leftmost(NonEmptyPlainParts(msg))].content

C8_Witness ==
    /\ bpc = "returned"
    /\ msg.multipart
    /\ HtmlParts(msg) = {}
    /\ PlainParts(msg) = {1, 2, 3}
    /\ msg.parts[1].content = NoBody
    /\ msg.parts[2].content = BodyA
    /\ msg.parts[3].content = BodyB
    /\ body = BodyA

-----------------------------------------------------------------------------
(* Claims about parse_workout_data (SpecParse) *)

\* C9: for every text the function returns, with all four keys, each field a
\* value exactly when its own pattern matches and None otherwise.
C9_FieldsIndependent ==
    ppc \in {"returned", "raised"} =>
        /\ ppc = "returned"
        /\ DOMAIN data = {"treadmill_distance", "rower_distance", "splat_points", "calories"}
        /\ data.calories # None <=> cal_match(text) # 0
        /\ data.splat_points # None <=> splat_match(text) # 0
        /\ data.treadmill_distance # None <=> tread_match(text) # 0
        /\ data.rower_distance # None <=> rower_match(text) # 0

-----------------------------------------------------------------------------
(* Claims about main and process_email (Spec) *)

LoopDone == pc \in {"sync", "cleanup"} \/ (pc = "done" /\ email_ids # <<>>)

RECURSIVE Produced(_)
Produced(r) ==
    IF r = <<>> THEN <<>>
    ELSE LET rest == Produced(Front(r))
         IN  IF Last(r).workout = None THEN rest ELSE Append(rest, Last(r).workout[1])

\* C3: main handles every identifier once, in search order; a message that
\* fails gives no record and the later ones are still handled; the records
\* produced are, in order, the batch handed to sync_to_supabase.
C3_EveryMessageHandled ==
    /\ Len(results) = pos - 1
    /\ \A k \in 1..Len(results) :
           /\ results[k].id = email_ids[k]
           /\ results[k].workout = None <=> results[k].path # "record"
    /\ workouts = Produced(results)
    /\ LoopDone => Len(results) = Len(email_ids)
    /\ (LoopDone /\ workouts # <<>>) => batch = workouts

C3_Witness ==
    /\ pc = "done"
    /\ Len(email_ids) = 2
    /\ results[1].path = "fetch_raised"
    /\ results[2].path = "record"
    /\ batch = <<results[2].workout[1]>>
    /\ outcome = <<"inserted">>

\* C4: a run of main that got past the connection step and found messages
\* ends with the summary printed, its counts those of the run, also when no
\* message gave a record.  (The run that finds no message prints "No OTF
\* emails found" and no counts; it is left out here.)
C4_SummaryPrinted ==
    (pc = "done" /\ email_ids # <<>>) =>
        /\ summary # None
        /\ summary[1].found = Len(email_ids)
        /\ summary[1].parsed = Len(workouts)

DateRejected(h) ==
    \/ h.raw \in {"missing", "empty"}
    \/ h.std = None /\ h.fallback = None

\* C5: a message whose Date header is missing, empty or rejected by both
\* parsers gives no record, and a record that process_email returns has a
\* workout_date.
C5_NoDateNoRecord ==
    pe_pc = "returned" =>
        /\ (pe_fetch = "OK" /\ DateRejected(pe_msg.date)) => pe_result = None
        /\ pe_result # None => pe_result[1].workout_date \in Dates
        /\ pe_result = process_email(pe_fetch, pe_msg)

C5_Witness ==
    /\ pe_pc = "returned"
    /\ pe_fetch = "OK"
    /\ pe_msg.date = [raw |-> "text", std |-> None, fallback |-> None]
    /\ get_email_body(pe_msg) = BodyA
    /\ pe_result = None

\* C10: a run of main in which connect_to_gmail succeeded has logged out exactly
\* once when main ends, by return or by an exception.
C10_LogoutOnce ==
    /\ logouts <= 1
    /\ pc \in {"done", "crashed"} => logouts = 1

=============================================================================
